---- MODULE Spec2Model ----
(***************************************************************************)
(* Model of src/main.py: a scheduler coroutine (run_scheduler) that polls  *)
(* the wall clock, and for each of two channels runs the pipeline          *)
(* process_posts (fetch -> blacklist filter -> per-post dispatch) inline.  *)
(* Time is counted in seconds since 00:00:00 UTC of day 0.                 *)
(***************************************************************************)
EXTENDS Integers, Sequences, FiniteSets, TLC

(***************************************************************************)
(* Bounds of the model.                                                    *)
(***************************************************************************)
\* number of polls of the clock (iterations of `while True`) explored
MaxPolls == 3
\* the process is started at most this many seconds before a trigger minute
MaxLead == 2
\* longest fetch result explored
MaxPosts == 2
\* scheduling overhead of one loop iteration beyond the 60 s sleep, in seconds
MaxTickCost == 1
\* the longest duration of one external call (HTTP, transcoder, transport)
LongCall == 43200
\* the longest tag string whose caption is rendered
MaxTagLen == 2

(***************************************************************************)
(* Calendar arithmetic of datetime (hour and minute attributes).           *)
(***************************************************************************)
SecondsPerMinute == 60
SecondsPerHour == 60 * SecondsPerMinute
SecondsPerDay == 24 * SecondsPerHour

hour(t) == (t % SecondsPerDay) \div SecondsPerHour
minute(t) == (t % SecondsPerHour) \div SecondsPerMinute
\* the calendar minute an instant lies in
MinuteOf(t) == t \div SecondsPerMinute

(***************************************************************************)
(* Program constants.                                                      *)
(***************************************************************************)
\* nz_offset = timedelta(hours=12)
nz_offset == 12 * SecondsPerHour
\* await asyncio.sleep(60) at the end of each scheduler iteration
SchedulerSleepShort == 60 \div 2
SchedulerSleep == 60
\* await asyncio.sleep(5) after each post
RateLimitDelay == 5

Channels == {1, 2}
\* the instant whose (hour, minute) a channel's trigger test looks at
LocalTime(c, t) == IF c = 2 THEN t + nz_offset ELSE t
\* `now.hour == 0 and now.minute == 0` of the channel's `if`
TriggerMatches(c, t) == hour(LocalTime(c, t)) = 0 /\ minute(LocalTime(c, t)) = 0

(***************************************************************************)
(* Posts.  A tag is a sequence of characters, a tag category a list of     *)
(* tags, as in the JSON of the content API.                                *)
(***************************************************************************)
TagX == <<"x">>
TagY == <<"a", "_">>
Tags == {TagX, TagY}
Categories == {"artist", "character", "general"}

\* the posts the content API is taken to return: one tag, in the artist or in
\* the general category, and a media URL that ends in .webm or does not
PostUniverse ==
    { [tags |-> [artist |-> t[1], character |-> <<>>, general |-> t[2]], webm |-> w] :
        t \in {<< <<TagY>>, <<>> >>, << <<>>, <<TagX>> >>}, w \in BOOLEAN }

SeqsUpTo(S, n) == UNION { [1..k -> S] : k \in 0..n }

Range(s) == { s[i] : i \in DOMAIN s }

\* is_blacklisted(post): union of all tag categories, intersected with the blacklist
is_blacklisted_general_only(post, bl) == (Range(post.tags["general"]) \cap bl) # {}
is_blacklisted(post, bl) ==
    LET post_tags == UNION { Range(post.tags[c]) : c \in DOMAIN post.tags }
    IN  (post_tags \cap bl) # {}

\* filtered_posts = [post for post in posts if not is_blacklisted(post)]
RECURSIVE filter_posts(_, _)
filter_posts(ps, bl) ==
    IF ps = <<>> THEN <<>>
    ELSE (IF is_blacklisted(Head(ps), bl) THEN <<>> ELSE <<Head(ps)>>)
         \o filter_posts(Tail(ps), bl)

(***************************************************************************)
(* escape_markdown and the caption of send_telegram_message.               *)
(***************************************************************************)
\* the characters of r'_*[]()~`>#+-=|{}.!' (the backtick is written "BACKTICK")
escape_chars ==
    {"_", "*", "[", "]", "(", ")", "~", "BACKTICK", ">", "#", "+", "-", "=", "|",
     "{", "}", ".", "!"}

RECURSIVE escape_markdown_no_underscore(_)
escape_markdown_no_underscore(text) ==
    IF text = <<>> THEN <<>>
    ELSE (IF Head(text) \in escape_chars \ {"_"}
          THEN <<"\\", Head(text)>> ELSE <<Head(text)>>)
         \o escape_markdown_no_underscore(Tail(text))

RECURSIVE escape_markdown(_)
escape_markdown(text) ==
    IF text = <<>> THEN <<>>
    ELSE (IF Head(text) \in escape_chars THEN <<"\\", Head(text)>> ELSE <<Head(text)>>)
         \o escape_markdown(Tail(text))

\* ', '.join(tags)
RECURSIVE join(_)
join(ts) ==
    IF ts = <<>> THEN <<>>
    ELSE IF Len(ts) = 1 THEN ts[1]
    ELSE ts[1] \o <<",", " ">> \o join(Tail(ts))

UnknownArtist == <<"U", "n", "k", "n", "o", "w", "n", " ", "A", "r", "t", "i", "s", "t">>
NoCharacter ==
    <<"N", "o", " ", "s", "p", "e", "c", "i", "f", "i", "c", " ",
      "c", "h", "a", "r", "a", "c", "t", "e", "r">>

\* message_text: the two free-text fields after escaping
Caption(post) ==
    [artist |-> escape_markdown(IF post.tags["artist"] # <<>>
                                THEN join(post.tags["artist"]) ELSE UnknownArtist),
     character |-> escape_markdown(IF post.tags["character"] # <<>>
                                   THEN join(post.tags["character"]) ELSE NoCharacter)]

(***************************************************************************)
(* Exceptions.  TimedOut is a subclass of TelegramError, which is a        *)
(* subclass of Exception.                                                  *)
(***************************************************************************)
IsInstance(e, cls) ==
    \/ e = cls
    \/ cls = "Exception" /\ e # "none"
    \/ cls = "TelegramError" /\ e = "TimedOut"

\* results of one transport call: "ok" or the exception it raises
SendResults == {"ok", "TelegramError", "TimedOut", "Exception"}

VARIABLES
    now,            \* the wall clock
    pc,             \* position of the scheduler coroutine
    now_utc,        \* the sample `now_utc` of the current iteration
    last_poll,      \* the sample of the previous iteration (-1: none)
    polls,          \* number of clock samples taken
    blacklist,      \* the module-level set `blacklist`
    chan,           \* is_second_channel of the pipeline in flight (0: none)
    posts,          \* what the fetch of the run in flight returned
    filtered_posts, \* filtered_posts of the run in flight
    idx,            \* position of the `for post in filtered_posts` loop
    message_text,   \* caption of the post being dispatched
    mp4_path,       \* mp4_path of send_telegram_message
    exc,            \* exception propagating out of the current call ("none")
    files,          \* temporary files that exist
    attempts,       \* transport calls for the post being dispatched, in order
    starts,         \* every start of process_posts: channel and instant
    counters,       \* the Prometheus counters and gauges
    run_log         \* what happened in the run in flight

vars == <<now, pc, now_utc, last_poll, polls, blacklist, chan, posts, filtered_posts,
          idx, message_text, mp4_path, exc, files, attempts, starts, counters, run_log>>

sched_vars == <<now_utc, last_poll, polls>>
run_vars == <<chan, posts, filtered_posts, idx, message_text, mp4_path, attempts, run_log>>

StartTimes ==
    { SecondsPerDay - k : k \in 1..MaxLead } \cup
    { SecondsPerDay - nz_offset - k : k \in 1..MaxLead }

\* how long one external call takes
CallDurations == {0, LongCall}

\* None, as the value of mp4_path
NoFile == [run |-> 0, idx |-> 0, ext |-> "none"]
\* message_text before any caption is rendered
NoCaption == [artist |-> <<>>, character |-> <<>>]

\* history of the run in flight, for stating the properties
NoRunLog ==
    [fetch |-> "none", dispatched |-> {}, escaped |-> {}, entry |-> <<>>,
     before |-> <<>>, convert |-> "none", outcome |-> "none", ended |-> -1,
     gap_ok |-> TRUE, id |-> 0]

InitCounters ==
    [POSTS_PROCESSED |-> [c \in Channels |-> 0],
     POSTS_SENT |-> [c \in Channels |-> 0],
     LAST_RUN_TIMESTAMP |-> [c \in Channels |-> 0],
     CONVERSION_ERRORS |-> 0,
     API_ERRORS |-> 0,
     TELEGRAM_ERRORS |-> 0]

(***************************************************************************)
(* load_blacklist                                                          *)
(***************************************************************************)
\* what blacklist.json can be: absent, not JSON, or a JSON array of strings
BlacklistFiles ==
    { [kind |-> "missing", content |-> {}], [kind |-> "malformed", content |-> {}] } \cup
    { [kind |-> "array", content |-> c] : c \in SUBSET Tags }

\* load_blacklist: the set returned, or the exception that leaves it.  Only
\* FileNotFoundError is caught; json.load raises JSONDecodeError on a file
\* that is not JSON.
load_blacklist(file) ==
    IF file.kind = "missing" THEN [ret |-> {}, raised |-> "none"]
    ELSE IF file.kind = "malformed" THEN [ret |-> {}, raised |-> "JSONDecodeError"]
    ELSE [ret |-> file.content, raised |-> "none"]

Init ==
    /\ now \in StartTimes
    /\ pc = "start"
    /\ now_utc = -1
    /\ last_poll = -1
    /\ polls = 0
    /\ blacklist = {}
    /\ chan = 0
    /\ posts = <<>>
    /\ filtered_posts = <<>>
    /\ idx = 0
    /\ message_text = NoCaption
    /\ mp4_path = NoFile
    /\ exc = "none"
    /\ files = {}
    /\ attempts = <<>>
    /\ starts = <<>>
    /\ counters = InitCounters
    /\ run_log = NoRunLog


(***************************************************************************)
(* Counter updates.                                                        *)
(***************************************************************************)
Inc(cs, name) == [cs EXCEPT ![name] = @ + 1]
IncCh(cs, name, c) == [cs EXCEPT ![name][c] = @ + 1]
SetCh(cs, name, c, v) == [cs EXCEPT ![name][c] = v]

(***************************************************************************)
(* run_scheduler                                                           *)
(***************************************************************************)
\* module level: blacklist = load_blacklist(), before the scheduler is entered;
\* an exception here ends the process
Startup ==
    /\ pc = "start"
    /\ \E file \in BlacklistFiles :
         LET b == load_blacklist(file) IN
         IF b.raised = "none"
         THEN /\ blacklist' = b.ret
              /\ pc' = "poll"
              /\ exc' = exc
         ELSE /\ blacklist' = blacklist
              /\ pc' = "crashed"
              /\ exc' = b.raised
    /\ UNCHANGED <<now, sched_vars, run_vars, files, starts, counters>>

\* `except Exception` of run_scheduler: the exceptions it catches
SchedulerCatchesNothing(e) == FALSE
SchedulerCatches(e) == IsInstance(e, "Exception")

\* where run_scheduler continues after the `if` block of channel c
AfterBlockNoSleep(c) == IF c = 1 THEN "check2" ELSE "poll"
AfterBlock(c) == IF c = 1 THEN "check2" ELSE "sleep"

\* entry of process_posts(is_second_channel): the log line, then the fetch
StartRun(c, sample) ==
    /\ pc' = "fetch"
    /\ chan' = c
    /\ posts' = <<>>
    /\ filtered_posts' = <<>>
    /\ idx' = 0
    /\ message_text' = NoCaption
    /\ mp4_path' = NoFile
    /\ attempts' = <<>>
    /\ starts' = Append(starts, [chan |-> c, at |-> now, sample |-> sample,
                                  ended |-> -1])
    /\ run_log' = [NoRunLog EXCEPT !.entry = counters, !.id = Len(starts) + 1]

\* now_utc = datetime.now(utc_tz), and the test of the first channel
Poll ==
    /\ pc = "poll"
    /\ polls < MaxPolls
    /\ now_utc' = now
    /\ last_poll' = now_utc
    /\ polls' = polls + 1
    /\ IF TriggerMatches(1, now)
         THEN StartRun(1, now)
         ELSE /\ pc' = "check2"
              /\ UNCHANGED <<run_vars, starts>>
    /\ UNCHANGED <<now, blacklist, exc, files, counters>>

\* the test of the second channel, on the same sample
Check2 ==
    /\ pc = "check2"
    /\ IF TriggerMatches(2, now_utc)
         THEN StartRun(2, now_utc)
         ELSE /\ pc' = "sleep"
              /\ UNCHANGED <<run_vars, starts>>
    /\ UNCHANGED <<now, sched_vars, blacklist, exc, files, counters>>

\* the frame of process_posts is left: its locals are gone
LeaveRun ==
    /\ pc' = AfterBlock(chan)
    /\ chan' = 0
    /\ posts' = <<>>
    /\ filtered_posts' = <<>>
    /\ idx' = 0
    /\ message_text' = NoCaption
    /\ mp4_path' = NoFile
    /\ attempts' = <<>>
    /\ run_log' = NoRunLog
    /\ starts' = [starts EXCEPT ![Len(starts)].ended = now]

\* process_posts returns to run_scheduler
Return ==
    /\ pc = "return"
    /\ LeaveRun
    /\ UNCHANGED <<now, sched_vars, blacklist, exc, files, counters>>

\* `except Exception` around process_posts in run_scheduler
SchedulerExcept ==
    /\ pc = "sched_except"
    /\ IF SchedulerCatches(exc)
         THEN /\ counters' = Inc(counters, "API_ERRORS")
              /\ exc' = "none"
              /\ LeaveRun
         ELSE /\ pc' = "crashed"
              /\ UNCHANGED <<counters, exc, run_vars, starts>>
    /\ UNCHANGED <<now, sched_vars, blacklist, files>>

\* await asyncio.sleep(60), and the time the iteration takes beyond it
Sleep ==
    /\ pc = "sleep"
    /\ \E d \in 0..MaxTickCost : now' = now + SchedulerSleep + d
    /\ pc' = "poll"
    /\ UNCHANGED <<sched_vars, blacklist, run_vars, exc, files, starts, counters>>


(***************************************************************************)
(* fetch_e621_posts / fetch_e621_posts_2                                   *)
(***************************************************************************)
\* what the HTTP request can do: a 2xx response whose JSON has a `posts` list,
\* a connection error, a non-2xx status, a body that is not JSON (a
\* requests.JSONDecodeError), a JSON body without the `posts` key
HttpOutcomes ==
    { [kind |-> "ok", posts |-> ps] : ps \in SeqsUpTo(PostUniverse, MaxPosts) } \cup
    { [kind |-> k, posts |-> <<>>] :
        k \in {"ConnectionError", "HTTPError", "JSONDecodeError", "KeyError"} }

FetchFailures == {"ConnectionError", "HTTPError", "JSONDecodeError", "KeyError"}

\* the classes `except requests.RequestException` catches (requests raises its
\* own JSONDecodeError, a RequestException, for a body that is not JSON; the
\* KeyError of ['posts'] is not one)
IsRequestException(e) == e \in {"ConnectionError", "HTTPError", "JSONDecodeError"}

\* the fetcher: the posts, None, or the exception that leaves it
fetch_e621_posts(r) ==
    IF r.kind = "ok" THEN [ret |-> "posts", posts |-> r.posts, raised |-> "none"]
    ELSE IF IsRequestException(r.kind)
         THEN [ret |-> "None", posts |-> <<>>, raised |-> "none"]
         ELSE [ret |-> "raised", posts |-> <<>>, raised |-> r.kind]

(***************************************************************************)
(* process_posts                                                           *)
(***************************************************************************)
\* the fetch, `if posts:` and the filter, or the else branch
Fetch ==
    /\ pc = "fetch"
    /\ \E d \in CallDurations, r \in HttpOutcomes :
         LET f == fetch_e621_posts(r) IN
         /\ now' = now + d
         /\ run_log' = [run_log EXCEPT !.fetch = r.kind]
         /\ IF f.ret = "raised"
              THEN /\ exc' = f.raised
                   /\ pc' = "sched_except"
                   /\ UNCHANGED <<posts, filtered_posts, idx, counters>>
              ELSE IF f.ret = "posts" /\ f.posts # <<>>
              THEN /\ posts' = f.posts
                   /\ filtered_posts' = filter_posts(f.posts, blacklist)
                   /\ idx' = 1
                   /\ pc' = "loop"
                   /\ UNCHANGED <<exc, counters>>
              ELSE /\ counters' = Inc(counters, "API_ERRORS")
                   /\ pc' = "return"
                   /\ UNCHANGED <<posts, filtered_posts, idx, exc>>
    /\ UNCHANGED <<sched_vars, blacklist, chan, message_text, mp4_path, files,
                   attempts, starts>>

\* the exception that leaves send_telegram_message when e is raised inside its
\* try: the clauses except TimedOut / TelegramError / Exception
EscapingNoCatchAll(e) ==
    IF IsInstance(e, "TimedOut") \/ IsInstance(e, "TelegramError") THEN "none" ELSE e
Escaping(e) ==
    IF \/ IsInstance(e, "TimedOut")
       \/ IsInstance(e, "TelegramError")
       \/ IsInstance(e, "Exception")
    THEN "none" ELSE e

\* the counters after send_telegram_message ended with e raised inside its try
\* ("none": it returned), and after the try/except of the loop body
AfterDispatchSkipsFailed(cs, c, e) ==
    IF e = "none" THEN IncCh(cs, "POSTS_PROCESSED", c) ELSE Inc(cs, "TELEGRAM_ERRORS")
AfterDispatch(cs, c, e) ==
    LET handled == IF e # "none" /\ Escaping(e) = "none"
                   THEN Inc(cs, "TELEGRAM_ERRORS") ELSE cs
    IN  IF Escaping(e) = "none"
        THEN IncCh(handled, "POSTS_PROCESSED", c)
        ELSE Inc(handled, "API_ERRORS")

\* the end of one iteration of `for post in filtered_posts`, before its sleep
EndDispatchWith(log, cs, e) ==
    /\ counters' = AfterDispatch(cs, chan, e)
    /\ run_log' = [log EXCEPT !.escaped = IF Escaping(e) = "none" THEN @
                                           ELSE @ \cup {idx},
                              !.outcome = e,
                              !.ended = now']
    /\ pc' = "delay"

EndDispatch(cs, e) == EndDispatchWith(run_log, cs, e)

\* file_url.lower().endswith('.webm')
requires_conversion_never(post) == FALSE
requires_conversion(post) == post.webm

\* LAST_RUN_TIMESTAMP.set_to_current_time(), after the loop
set_last_run_if_filtered(cs) ==
    IF filtered_posts # <<>> THEN SetCh(cs, "LAST_RUN_TIMESTAMP", chan, now) ELSE cs
set_last_run(cs) == SetCh(cs, "LAST_RUN_TIMESTAMP", chan, now)

\* the seconds of the sleep that follows a dispatch that ended with e
DelayOnlyAfterSuccess(e) == IF e = "none" THEN RateLimitDelay ELSE 0
DelayAfter(e) == RateLimitDelay

\* head of the loop: the next post enters send_telegram_message, which renders
\* the caption and tests the extension; or the loop is over
Loop ==
    /\ pc = "loop"
    /\ IF idx <= Len(filtered_posts)
         THEN /\ message_text' = Caption(filtered_posts[idx])
              /\ mp4_path' = NoFile
              /\ attempts' = <<>>
              /\ run_log' = [run_log EXCEPT !.dispatched = @ \cup {idx},
                                            !.before = counters,
                                            !.convert = "none",
                                            !.outcome = "none",
                                            !.ended = -1,
                                            !.gap_ok =
                                                \/ idx = 1
                                                \/ now >= run_log.ended + RateLimitDelay]
              /\ pc' = IF requires_conversion(filtered_posts[idx])
                       THEN "convert" ELSE "send_video"
              /\ UNCHANGED counters
         ELSE /\ counters' = set_last_run(counters)
              /\ pc' = "return"
              /\ UNCHANGED <<message_text, mp4_path, attempts, run_log>>
    /\ UNCHANGED <<now, sched_vars, blacklist, chan, posts, filtered_posts, idx, exc,
                   files, starts>>

\* await asyncio.sleep(5)
Delay ==
    /\ pc = "delay"
    /\ now' = now + DelayAfter(run_log.outcome)
    /\ idx' = idx + 1
    /\ pc' = "loop"
    /\ UNCHANGED <<sched_vars, blacklist, chan, posts, filtered_posts, message_text,
                   mp4_path, exc, files, attempts, starts, counters, run_log>>

(***************************************************************************)
(* convert_webm_to_mp4 and send_telegram_message                           *)
(***************************************************************************)
\* the temporary files of the post being dispatched
TempFile(ext) == [run |-> run_log.id, idx |-> idx, ext |-> ext]

\* what the download and the transcoder can do
ConvertOutcomes == {"ok", "download_error", "transcode_error"}

\* convert_webm_to_mp4: the value returned and the temporary files left behind.
\* The .webm file is created (delete=False) before the download; temp_webm_path is
\* bound only after the download, and `finally` removes the file only when it is
\* bound.  A transcoder that fails may or may not have written part of the .mp4.
convert_returns_path_on_failure(outcome, partial) ==
    IF outcome = "download_error"
    THEN [ret |-> NoFile, left |-> {TempFile("webm")}]
    ELSE [ret |-> TempFile("mp4"), left |-> {TempFile("mp4")}]
convert_webm_to_mp4(outcome, partial) ==
    IF outcome = "download_error"
    THEN [ret |-> NoFile, left |-> {TempFile("webm")}]
    ELSE IF outcome = "transcode_error"
    THEN [ret |-> NoFile, left |-> IF partial THEN {TempFile("mp4")} ELSE {}]
    ELSE [ret |-> TempFile("mp4"), left |-> {TempFile("mp4")}]

\* one call of the transport, as it is logged in `attempts`
Attempt(method, payload, result) ==
    [idx |-> idx, post |-> filtered_posts[idx], chan |-> chan, method |-> method,
     payload |-> payload, caption |-> message_text, result |-> result]

\* the .webm branch up to the open of the converted file
Convert ==
    /\ pc = "convert"
    /\ \E d \in CallDurations, o \in ConvertOutcomes, partial \in BOOLEAN :
         LET c == convert_webm_to_mp4(o, partial) IN
         /\ now' = now + d
         /\ files' = files \cup c.left
         /\ mp4_path' = c.ret
         /\ IF c.ret # NoFile
              THEN /\ pc' = "send_converted"
                   /\ run_log' = [run_log EXCEPT !.convert = o]
                   /\ UNCHANGED counters
              ELSE EndDispatchWith([run_log EXCEPT !.convert = o],
                                   Inc(counters, "CONVERSION_ERRORS"), "none")
    /\ UNCHANGED <<sched_vars, blacklist, chan, posts, filtered_posts, idx, message_text,
                   exc, attempts, starts>>

\* bot.send_video of the converted file, os.remove and the counter
SendConverted ==
    /\ pc = "send_converted"
    /\ \E d \in CallDurations, r \in SendResults :
         /\ now' = now + d
         /\ attempts' = Append(attempts, Attempt("video", "file", r))
         /\ IF r = "ok"
              THEN /\ files' = files \ {mp4_path}
                   /\ EndDispatch(IncCh(counters, "POSTS_SENT", chan), "none")
              ELSE /\ files' = files
                   /\ EndDispatch(counters, r)
    /\ UNCHANGED <<sched_vars, blacklist, chan, posts, filtered_posts, idx, message_text,
                   mp4_path, exc, starts>>

\* bot.send_video of the URL, inside the inner try
SendVideo ==
    /\ pc = "send_video"
    /\ \E d \in CallDurations, r \in SendResults :
         /\ now' = now + d
         /\ attempts' = Append(attempts, Attempt("video", "url", r))
         /\ IF r = "ok"
              THEN EndDispatch(IncCh(counters, "POSTS_SENT", chan), "none")
              ELSE IF IsInstance(r, "TelegramError")
              THEN /\ pc' = "send_animation"
                   /\ UNCHANGED <<counters, run_log>>
              ELSE EndDispatch(counters, r)
    /\ UNCHANGED <<sched_vars, blacklist, chan, posts, filtered_posts, idx, message_text,
                   mp4_path, exc, files, starts>>

\* bot.send_animation of the URL, inside `except TelegramError`
SendAnimation ==
    /\ pc = "send_animation"
    /\ \E d \in CallDurations, r \in SendResults :
         /\ now' = now + d
         /\ attempts' = Append(attempts, Attempt("animation", "url", r))
         /\ IF r = "ok"
              THEN EndDispatch(IncCh(counters, "POSTS_SENT", chan), "none")
              ELSE EndDispatch(counters, r)
    /\ UNCHANGED <<sched_vars, blacklist, chan, posts, filtered_posts, idx, message_text,
                   mp4_path, exc, files, starts>>

Next ==
    \/ Startup
    \/ Poll
    \/ Check2
    \/ Return
    \/ SchedulerExcept
    \/ Sleep
    \/ Fetch
    \/ Loop
    \/ Delay
    \/ Convert
    \/ SendConverted
    \/ SendVideo
    \/ SendAnimation

Spec == Init /\ [][Next]_vars

\* the event loop keeps running the scheduler coroutine, and every external
\* call returns or fails
\* the process is started one second before the trigger minute of a channel
InitFair == Init /\ now \in {SecondsPerDay - 1, SecondsPerDay - nz_offset - 1}

FairSpec == InitFair /\ [][Next]_vars /\ WF_vars(Next)

(***************************************************************************)
(* Properties.                                                             *)
(***************************************************************************)
\* a trigger minute of channel c lies wholly between the previous clock sample
\* and the current one
TriggerSkipped(c) ==
    /\ last_poll >= 0
    /\ \E m \in (MinuteOf(last_poll) + 1)..(MinuteOf(now_utc) - 1) :
         TriggerMatches(c, m * SecondsPerMinute)

\* the previous iteration of the scheduler started the pipeline of channel c
RanSinceLastPoll(c) ==
    \E s \in DOMAIN starts : starts[s].chan = c /\ starts[s].sample = last_poll

\* the union of the tag-category sets of a post meets the blacklist
Rejected(post) ==
    (UNION { Range(post.tags[c]) : c \in Categories } \cap blacklist) # {}

\* C1: no channel's pipeline is started twice in one calendar minute.
C1_AtMostOncePerMinute ==
    \A i, j \in DOMAIN starts :
        (i # j /\ starts[i].chan = starts[j].chan)
            => MinuteOf(starts[i].at) # MinuteOf(starts[j].at)

\* a channel fired, its run is over, and the next sample of the clock was taken
\* in the calendar minute right after the fire
C1_Witness ==
    /\ starts # <<>>
    /\ pc = "check2"
    /\ chan = 0
    /\ MinuteOf(now_utc) = MinuteOf(starts[Len(starts)].at) + 1

\* C2: no trigger minute of an idle channel passes without a poll inside it.
C2_NoMissedTrigger ==
    \A c \in Channels : ~RanSinceLastPoll(c) => ~TriggerSkipped(c)

\* C3: a run of one channel never makes the scheduler pass over a trigger
\* minute of the other channel.
C3_NoBlocking ==
    \A a \in Channels, b \in Channels :
        (a # b /\ RanSinceLastPoll(a)) => ~TriggerSkipped(b)

\* C4: no exception leaves send_telegram_message, every post before the current
\* one was dispatched, and a run that got posts ends with all of them dispatched.
C4_FailureIsolation ==
    /\ run_log.escaped = {}
    /\ chan # 0 => (1..(idx - 1)) \subseteq run_log.dispatched
    /\ (pc = "return" /\ posts # <<>>) => run_log.dispatched = DOMAIN filtered_posts

\* the dispatch of the first post failed in the transport and the second post
\* has entered its dispatch
C4_Witness ==
    /\ idx = 2
    /\ 2 \in run_log.dispatched
    /\ counters.TELEGRAM_ERRORS > run_log.entry.TELEGRAM_ERRORS

\* C5: every post handed to the transport is disjoint from the blacklist, and
\* the filter keeps exactly the posts that are.
C5_DispatchedPassedFilter ==
    LET Passes(p) == ~Rejected(p) IN
    /\ \A k \in DOMAIN attempts : ~Rejected(attempts[k].post)
    /\ posts # <<>> => filtered_posts = SelectSeq(posts, Passes)

\* a transport call is made in a run whose fetch held a post the filter rejected
C5_Witness ==
    /\ attempts # <<>>
    /\ Len(filtered_posts) < Len(posts)

\* C6: a video attempt the transport rejects is followed by an animation
\* attempt of the same post, destination and caption, which counts as sent once.
C6_FallbackAfterRejection ==
    pc = "delay" =>
      \A k \in DOMAIN attempts :
        (attempts[k].method = "video" /\ attempts[k].result = "TelegramError") =>
          /\ k + 1 \in DOMAIN attempts
          /\ attempts[k + 1].method = "animation"
          /\ attempts[k + 1].post = attempts[k].post
          /\ attempts[k + 1].chan = attempts[k].chan
          /\ attempts[k + 1].caption = attempts[k].caption
          /\ attempts[k + 1].result = "ok" =>
               counters.POSTS_SENT[chan] = run_log.before.POSTS_SENT[chan] + 1

\* C7: an attempt that timed out is the last attempt made for its post.
C7_NoAttemptAfterTimeout ==
    \A k \in DOMAIN attempts : attempts[k].result = "TimedOut" => k = Len(attempts)

\* C8: when the dispatch of a post has returned, none of its temporary files exists.
C8_NoTempFileLeft ==
    pc = "delay" => \A f \in files : ~(f.run = run_log.id /\ f.idx = idx)

\* C9: a failed fetch raises nothing: no exception reaches run_scheduler and
\* nothing is dispatched.
C9_FetchFailureContained ==
    run_log.fetch \in FetchFailures =>
        /\ exc = "none"
        /\ pc # "sched_except"
        /\ run_log.dispatched = {}

\* C10: a fetch that returns the empty list leaves every counter as it was.
C10_EmptyFetchNoEffect ==
    (pc = "return" /\ run_log.fetch = "ok" /\ posts = <<>>) =>
        /\ counters = run_log.entry
        /\ run_log.dispatched = {}

(***************************************************************************)
(* The caption of send_telegram_message on its own: a post with free-text  *)
(* tags is rendered.                                                       *)
(***************************************************************************)
\* characters of the tags: a letter, three markup characters, the backslash
TagAlphabet == {"a", "_", "*", "[", "\\"}
TagTexts == SeqsUpTo(TagAlphabet, MaxTagLen) \ {<<>>}

\* posts with no, one or two artist tags and no or one character tag
CaptionPosts ==
    { [tags |-> [artist |-> a, character |-> c, general |-> <<>>], webm |-> FALSE] :
        a \in {<<>>} \cup { <<t>> : t \in TagTexts }
                     \cup { <<t, u>> : t \in TagTexts, u \in TagTexts },
        c \in {<<>>, << <<"a", "[">> >>} }

InitCaption ==
    /\ now = 0
    /\ pc = "render"
    /\ now_utc = -1
    /\ last_poll = -1
    /\ polls = 0
    /\ blacklist = {}
    /\ chan = 0
    /\ \E p \in CaptionPosts : posts = <<p>>
    /\ filtered_posts = posts
    /\ idx = 1
    /\ message_text = NoCaption
    /\ mp4_path = NoFile
    /\ exc = "none"
    /\ files = {}
    /\ attempts = <<>>
    /\ starts = <<>>
    /\ counters = InitCounters
    /\ run_log = NoRunLog

\* the first lines of send_telegram_message: message_text is built
RenderCaption ==
    /\ pc = "render"
    /\ message_text' = Caption(filtered_posts[idx])
    /\ pc' = "rendered"
    /\ UNCHANGED <<now, sched_vars, blacklist, chan, posts, filtered_posts, idx,
                   mp4_path, exc, files, attempts, starts, counters, run_log>>

NextCaption == RenderCaption

SpecCaption == InitCaption /\ [][NextCaption]_vars

\* the characters MarkdownV2 reserves
MarkupControl ==
    {"_", "*", "[", "]", "(", ")", "~", "BACKTICK", ">", "#", "+", "-", "=", "|",
     "{", "}", ".", "!"}

\* the number of markup characters among the first i characters of r
ControlsUpTo(r, i) == Cardinality({ j \in 1..i : r[j] \in MarkupControl })

\* c is r with exactly one backslash put in front of each markup character
EscapedOnce(r, c) ==
    /\ Len(c) = Len(r) + ControlsUpTo(r, Len(r))
    /\ \A i \in 1..Len(r) :
         LET p == i + ControlsUpTo(r, i) IN
         /\ c[p] = r[i]
         /\ r[i] \in MarkupControl => c[p - 1] = "\\"

\* the text of a free-text field before escaping
RawField(tags, sentinel) == IF tags # <<>> THEN join(tags) ELSE sentinel

\* C17: in the rendered caption each free-text field is its raw text with
\* exactly one escape backslash in front of every markup character.
C17_EscapedExactlyOnce ==
    pc = "rendered" =>
        /\ EscapedOnce(RawField(posts[1].tags["artist"], UnknownArtist),
                       message_text.artist)
        /\ EscapedOnce(RawField(posts[1].tags["character"], NoCharacter),
                       message_text.character)

\* the caption of a post whose artist tags hold markup characters is rendered
C17_Witness ==
    /\ pc = "rendered"
    /\ posts[1].tags["artist"] = << <<"a", "_">>, <<"*">> >>
    /\ message_text.artist = <<"a", "\\", "_", ",", " ", "\\", "*">>

\* C11: every run that starts is left again and the scheduler comes back to
\* the head of its loop, whatever happened in the run.
C11_RunsComplete == (chan # 0) ~> (chan = 0 /\ pc = "poll")

\* a run that ended in an error (fetch failure or exception) is over and the
\* scheduler is back at the head of its loop
C11_Witness ==
    /\ pc = "poll"
    /\ chan = 0
    /\ starts # <<>>
    /\ counters.API_ERRORS > 0

\* C15: loading the blacklist never ends the process.
C15_LoadNeverFails == pc # "crashed"

\* C12: a post whose media is .webm is only ever sent as the converted file.
C12_WebmSentConverted ==
    \A k \in DOMAIN attempts : attempts[k].post.webm => attempts[k].payload = "file"

\* a transport call was made for a .webm post
C12_Witness ==
    /\ pc = "delay"
    /\ \E k \in DOMAIN attempts : attempts[k].post.webm

\* the counters observed for channel c: its own, and the error counters
ChannelView(c) ==
    [processed |-> counters.POSTS_PROCESSED[c],
     sent |-> counters.POSTS_SENT[c],
     last_success |-> counters.LAST_RUN_TIMESTAMP[c],
     errors |-> <<counters.CONVERSION_ERRORS, counters.API_ERRORS,
                  counters.TELEGRAM_ERRORS>>]

\* C13: no step of a run of one channel changes a counter observed for the other.
C13_OnlyOwnRun ==
    [][\A b \in Channels :
         (chan # 0 /\ chan # b) => ChannelView(b)' = ChannelView(b)]_vars

ConversionFailed == run_log.convert \in {"download_error", "transcode_error"}

\* C14: after a failed conversion the dispatch is over with no transport call,
\* the conversion-error counter one higher and the sent counter as before.
C14_ConversionFailureSkips ==
    (pc \in {"send_converted", "delay"} /\ ConversionFailed) =>
        /\ pc = "delay"
        /\ attempts = <<>>
        /\ counters.CONVERSION_ERRORS = run_log.before.CONVERSION_ERRORS + 1
        /\ counters.POSTS_SENT = run_log.before.POSTS_SENT

\* the transcoder failed for the post whose dispatch has just ended
C14_Witness ==
    /\ pc = "delay"
    /\ run_log.convert = "transcode_error"

\* a dispatch (send_telegram_message) is in progress or has just ended
InDispatch == pc \in {"convert", "send_converted", "send_video", "send_animation", "delay"}

\* C16: posts are dispatched one at a time in list order, and at least the
\* rate-limit delay lies between the end of one dispatch and the start of the next.
C16_DelayBetweenPosts ==
    InDispatch =>
        /\ run_log.dispatched = 1..idx
        /\ \A k \in DOMAIN attempts : attempts[k].idx = idx
        /\ run_log.gap_ok

\* the second post is in its dispatch after the first one was skipped for a
\* failed conversion
C16_Witness ==
    /\ InDispatch
    /\ idx = 2
    /\ counters.CONVERSION_ERRORS > run_log.entry.CONVERSION_ERRORS

\* C18: at most one run is in flight, the clock is not sampled during a run, and
\* the sample that follows a run is taken at least the sleep after its end.
C18_OneRunNoPollInside ==
    /\ Cardinality({ k \in DOMAIN starts : starts[k].ended = -1 }) <= 1
    /\ chan # 0 => /\ starts[Len(starts)].ended = -1
                   /\ now_utc = starts[Len(starts)].sample
    /\ \A k \in DOMAIN starts :
         (starts[k].ended >= 0 /\ now_utc > starts[k].sample)
             => now_utc >= starts[k].ended + SchedulerSleep

\* a run that took time is over and the clock has been sampled again
C18_Witness ==
    \E k \in DOMAIN starts :
        /\ starts[k].ended > starts[k].at
        /\ now_utc > starts[k].sample

SentDelta == counters.POSTS_SENT[chan] - run_log.before.POSTS_SENT[chan]
ProcessedDelta == counters.POSTS_PROCESSED[chan] - run_log.before.POSTS_PROCESSED[chan]

\* C19: a dispatch adds one to processed, and one to sent exactly when its last
\* transport call succeeded; over a run sent <= processed <= filtered posts.
C19_SentProcessedCounts ==
    /\ pc \in {"convert", "send_converted", "send_video", "send_animation"} =>
          SentDelta = 0 /\ ProcessedDelta = 0
    /\ pc = "delay" =>
          /\ ProcessedDelta = 1
          /\ SentDelta \in {0, 1}
          /\ SentDelta = 1 =>
               attempts # <<>> /\ attempts[Len(attempts)].result = "ok"
    /\ (pc = "return" /\ posts # <<>>) =>
          LET sent == counters.POSTS_SENT[chan] - run_log.entry.POSTS_SENT[chan]
              processed == counters.POSTS_PROCESSED[chan]
                             - run_log.entry.POSTS_PROCESSED[chan]
          IN  sent <= processed /\ processed <= Len(filtered_posts)

\* a run of two posts is over, one delivered and one failed
C19_Witness ==
    /\ pc = "return"
    /\ Len(filtered_posts) = 2
    /\ counters.POSTS_SENT[chan] = run_log.entry.POSTS_SENT[chan] + 1
    /\ counters.POSTS_PROCESSED[chan] = run_log.entry.POSTS_PROCESSED[chan] + 2

TimestampUpdated ==
    counters.LAST_RUN_TIMESTAMP[chan] # run_log.entry.LAST_RUN_TIMESTAMP[chan]

\* C20: the timestamp of a channel is set by a run exactly when the run is over
\* and its fetch returned at least one post.
C20_TimestampIffFetched ==
    chan # 0 => (TimestampUpdated <=> (pc = "return" /\ posts # <<>>))

\* a run whose posts were all rejected by the filter has set the timestamp
C20_Witness ==
    /\ pc = "return"
    /\ posts # <<>>
    /\ filtered_posts = <<>>
    /\ TimestampUpdated

====
